---- MODULE Spec2Model ----
(***************************************************************************)
(* Reverse mode of the tape-based AD engine in                             *)
(* TMB/inst/include/cppad/local/reverse.hpp:                               *)
(*   ADFun<Base>::Reverse    (full sweep, local Partial buffer)            *)
(*   ADFun<Base>::myReverse  (selective sweep, shared Partial buffer)      *)
(*   radix::radix            (LSD radix sort with pass skipping)           *)
(* Base values are modelled by integers; vectors are functions on 0..n-1,  *)
(* indexed exactly as the C++ code indexes them.                           *)
(***************************************************************************)
EXTENDS Integers, Sequences, FiniteSets, TLC

\* ------------------------------------------------------------ bounds
\* weights of the full sweep are drawn from 0..MaxW
MaxW == 1
\* length of the vectors handed to the radix sort
MaxLen == 3

\* ------------------------------------------------------------ vectors
Size(v) == Cardinality(DOMAIN v)
ZeroBased(s) == [i \in 0..(Len(s) - 1) |-> s[i + 1]]
Zeros(len) == [i \in 0..(len - 1) |-> 0]

RECURSIVE SumOver(_, _)
\* sum of f[e] over the finite set S \subseteq DOMAIN f
SumOver(f, S) ==
  IF S = {} THEN 0
  ELSE LET e == CHOOSE e \in S : TRUE IN f[e] + SumOver(f, S \ {e})

\* ------------------------------------------------------------ the tape
\* number of result slots of an operator (CppAD::NumRes)
NumRes(op) ==
  CASE op = "BeginOp" -> 1
    [] op = "InvOp"   -> 1
    [] op = "AddvvOp" -> 1
    [] op = "MulvvOp" -> 1
    [] op = "SinOp"   -> 2
    [] op = "EndOp"   -> 0

\* number of variable arguments of an operator
NumArg(op) ==
  CASE op = "AddvvOp" -> 2
    [] op = "MulvvOp" -> 2
    [] op = "SinOp"   -> 1
    [] OTHER          -> 0

Rec(kind, a, b) == [op |-> kind, arg0 |-> a, arg1 |-> b]

\* The recordings the engine is run on: the operation sequence play_ and the
\* dependent variable addresses dep_taddr_.  Operator 0 is BeginOp (variable
\* address 0), the independent variables follow at addresses 1..n.
Recordings == <<
  \* y = x0*x1 + x0
  [ play |-> ZeroBased(<< Rec("BeginOp", 0, 0), Rec("InvOp", 0, 0), Rec("InvOp", 0, 0),
                          Rec("MulvvOp", 1, 2), Rec("AddvvOp", 3, 1), Rec("EndOp", 0, 0) >>),
    dep  |-> ZeroBased(<< 4 >>) ],
  \* y0 = x0*x1, y1 = the same variable (two outputs alias one address)
  [ play |-> ZeroBased(<< Rec("BeginOp", 0, 0), Rec("InvOp", 0, 0), Rec("InvOp", 0, 0),
                          Rec("MulvvOp", 1, 2), Rec("EndOp", 0, 0) >>),
    dep  |-> ZeroBased(<< 3, 3 >>) ],
  \* s = sin(x0) (cos at 3, sin at 4), y0 = s*x1, y1 = x1 + x1
  [ play |-> ZeroBased(<< Rec("BeginOp", 0, 0), Rec("InvOp", 0, 0), Rec("InvOp", 0, 0),
                          Rec("SinOp", 1, 0), Rec("MulvvOp", 4, 2), Rec("AddvvOp", 2, 2),
                          Rec("EndOp", 0, 0) >>),
    dep  |-> ZeroBased(<< 5, 6 >>) ],
  \* y0 = x0*x1 + x0, y1 = x0 (an output that is an independent variable)
  [ play |-> ZeroBased(<< Rec("BeginOp", 0, 0), Rec("InvOp", 0, 0), Rec("InvOp", 0, 0),
                          Rec("MulvvOp", 1, 2), Rec("AddvvOp", 3, 1), Rec("EndOp", 0, 0) >>),
    dep  |-> ZeroBased(<< 4, 1 >>) ],
  \* y0 = x1*x1, s = sin(y0) (cos at 4, sin at 5), y1 = s + x0
  [ play |-> ZeroBased(<< Rec("BeginOp", 0, 0), Rec("InvOp", 0, 0), Rec("InvOp", 0, 0),
                          Rec("MulvvOp", 2, 2), Rec("SinOp", 3, 0), Rec("AddvvOp", 5, 1),
                          Rec("EndOp", 0, 0) >>),
    dep  |-> ZeroBased(<< 3, 6 >>) ]
>>

NumOps(play) == Size(play)

RECURSIVE SumRes(_, _)
\* number of result slots of operators 0..i_op
SumRes(play, i_op) ==
  IF i_op < 0 THEN 0 ELSE NumRes(play[i_op].op) + SumRes(play, i_op - 1)

\* tape_point::var_index of operator i_op: the address of its primary (last) result
VarIndex(play, i_op) == SumRes(play, i_op) - 1

\* tp_: the per-operator record (kind, var_index)
TapePoints(play) == [i_op \in DOMAIN play |-> [op |-> play[i_op].op, var_index |-> VarIndex(play, i_op)]]

TotalNumVar(play) == SumRes(play, NumOps(play) - 1)

\* ind_taddr_: independent variable j lives at address j + 1
IndTaddr(play) ==
  LET n == Cardinality({i \in DOMAIN play : play[i].op = "InvOp"}) IN [j \in 0..(n - 1) |-> j + 1]

\* var2op_: the operator whose result slots contain address a
Var2Op(play, a) ==
  CHOOSE i_op \in DOMAIN play :
    /\ NumRes(play[i_op].op) > 0
    /\ VarIndex(play, i_op) - NumRes(play[i_op].op) < a
    /\ a <= VarIndex(play, i_op)

\* ------------------------------------------------------------ forward store
\* Taylor coefficients of order 0..q-1 of one operator's results, from those of
\* its operands: tay[a][k] is coefficient k of variable a.
ForwardOp(play, i_op, tay, u, q) ==
  LET o == play[i_op]
      z == VarIndex(play, i_op)
      a == o.arg0
      b == o.arg1
  IN CASE o.op = "InvOp" -> [tay EXCEPT ![z] = u[z - 1]]
       [] o.op = "AddvvOp" -> [tay EXCEPT ![z] = [k \in 0..(q - 1) |-> tay[a][k] + tay[b][k]]]
       [] o.op = "MulvvOp" ->
            [tay EXCEPT ![z] = [k \in 0..(q - 1) |->
                SumOver([l \in 0..k |-> tay[a][l] * tay[b][k - l]], 0..k)]]
       [] o.op = "SinOp" ->
            \* evaluated at an argument whose value is 0: sin = 0, cos = 1
            [tay EXCEPT ![z]     = [k \in 0..(q - 1) |-> IF k = 0 THEN 0 ELSE tay[a][1]],
                        ![z - 1] = [k \in 0..(q - 1) |-> IF k = 0 THEN 1 ELSE 0]]
       [] OTHER -> tay

RECURSIVE ForwardSweep(_, _, _, _, _)
ForwardSweep(play, i_op, tay, u, q) ==
  IF i_op = NumOps(play) THEN tay
  ELSE ForwardSweep(play, i_op + 1, ForwardOp(play, i_op, tay, u, q), u, q)

\* taylor_: the store left by Forward for independent coefficients u (u[j][k]), q orders
Forward(play, u, q) ==
  ForwardSweep(play, 0, [a \in 0..(TotalNumVar(play) - 1) |-> Zeros(q)], u, q)

\* the sine operator is only evaluated where its value is exact in the integers
SinArgsZero(play, tay) ==
  \A i_op \in DOMAIN play : play[i_op].op = "SinOp" => tay[play[i_op].arg0][0] = 0

\* ------------------------------------------------------------ reverse sweeps
\* One operator of the reverse sweep: adds the chain-rule contribution of the
\* result rows of operator i_op into its operand rows.  P is the flat Partial
\* array (row a, order k at index a*p + k), d = p - 1 the highest order.
ReverseOp(play, i_op, tay, p, P) ==
  LET o == play[i_op]
      z == VarIndex(play, i_op)
      a == o.arg0
      b == o.arg1
      d == p - 1
      JK == {jk \in (0..d) \X (0..d) : jk[2] <= jk[1]}
  IN CASE o.op = "AddvvOp" ->
            [i \in DOMAIN P |->
               P[i] + (IF i \in (a * p)..(a * p + d) THEN P[z * p + (i - a * p)] ELSE 0)
                    + (IF i \in (b * p)..(b * p + d) THEN P[z * p + (i - b * p)] ELSE 0)]
       [] o.op = "MulvvOp" ->
            \* px[j-k] += pz[j] * y[k];  py[k] += pz[j] * x[j-k]
            [i \in DOMAIN P |->
               P[i] + SumOver([jk \in JK |-> P[z * p + jk[1]] * tay[b][jk[2]]],
                              {jk \in JK : a * p + jk[1] - jk[2] = i})
                    + SumOver([jk \in JK |-> P[z * p + jk[1]] * tay[a][jk[1] - jk[2]]],
                              {jk \in JK : b * p + jk[2] = i})]
       [] o.op = "SinOp" ->
            LET s0 == tay[z][0]
                c0 == tay[z - 1][0]
            IN IF d = 0
               THEN [P EXCEPT ![a * p] = @ + P[z * p] * c0 - P[(z - 1) * p] * s0]
               ELSE LET ps1 == P[z * p + 1]
                        pc1 == P[(z - 1) * p + 1]
                        ps0 == P[z * p] - pc1 * tay[a][1]
                        pc0 == P[(z - 1) * p] + ps1 * tay[a][1]
                    IN [P EXCEPT ![a * p + 1] = @ + ps1 * c0 - pc1 * s0,
                                 ![z * p] = ps0,
                                 ![(z - 1) * p] = pc0,
                                 ![a * p] = @ + ps0 * c0 - pc0 * s0]
       [] OTHER -> P

RECURSIVE ReverseSweepFrom(_, _, _, _, _)
ReverseSweepFrom(play, i_op, tay, p, P) ==
  IF i_op <= 0 THEN P
  ELSE ReverseSweepFrom(play, i_op - 1, tay, p, ReverseOp(play, i_op, tay, p, P))

\* ReverseSweep: every operator, in strictly reverse recorded order, down to BeginOp
ReverseSweep(play, tay, p, P) == ReverseSweepFrom(play, NumOps(play) - 1, tay, p, P)

\* operators producing the operands of operator i_op
ArgOps(play, i_op) ==
  LET o == play[i_op] IN
  (IF NumArg(o.op) >= 1 THEN {Var2Op(play, o.arg0)} ELSE {}) \cup
  (IF NumArg(o.op) >= 2 THEN {Var2Op(play, o.arg1)} ELSE {})

RECURSIVE MarkFrom(_, _)
\* the operators reachable backward from the marked set
MarkFrom(play, marked) ==
  LET more == marked \cup UNION {ArgOps(play, i_op) : i_op \in marked}
  IN IF more = marked THEN marked ELSE MarkFrom(play, more)

RECURSIVE SortedVec(_)
\* the elements of a finite set of numbers in increasing order
SortedVec(S) ==
  IF S = {} THEN << >>
  ELSE LET hi == CHOOSE e \in S : \A f \in S : f <= e IN Append(SortedVec(S \ {hi}), hi)

\* op_mark_index_ for a dependent variable: the relevant operators, sorted
OpMarkIndex(play, dep, dep_var_index) ==
  ZeroBased(SortedVec(MarkFrom(play, {Var2Op(play, dep[dep_var_index])})))

\* op_inv_index_: the relevant operators that are independent variables
OpInvIndex(play, dep, dep_var_index) ==
  ZeroBased(SortedVec({i_op \in MarkFrom(play, {Var2Op(play, dep[dep_var_index])}) :
                         play[i_op].op = "InvOp"}))

RECURSIVE SweepMarked(_, _, _, _, _, _)
SweepMarked(play, mark, pos, tay, p, P) ==
  IF pos < 0 THEN P
  ELSE SweepMarked(play, mark, pos - 1, tay, p, ReverseOp(play, mark[pos], tay, p, P))

\* myReverseSweep: only the operators of op_mark_index_, in reverse order
myReverseSweep(play, mark, tay, p, P) == SweepMarked(play, mark, Size(mark) - 1, tay, p, P)

\* ------------------------------------------------------------ engine state
VARIABLES
  rec,              \* which recording this ADFun holds (play_, dep_taddr_)
  taylor_per_var_,  \* number of Taylor coefficients stored per variable
  taylor_,          \* the forward store: taylor_[a][k]
  Partial,          \* the member buffer myReverse works in (total_num_var_ entries)
  op_mark_index_,   \* relevant operators of the last selective sweep
  op_inv_index_,    \* relevant independent-variable operators of the last selective sweep
  value,            \* the caller's result vector handed to myReverse
  ret,              \* the vector returned by the last Reverse call (<< >> if none)
  call,             \* the call just made: kind, p, w, dep_var_index, value on entry
  status,           \* "ok", or "error" when the call ended in the error handler
  seeded,           \* Reverse: its local Partial after seeding, before the sweep
  preClean,         \* myReverse: Partial after the sweep, before the cleanup loop
  cleaned,          \* myReverse: the Partial indices the cleanup loop assigned
  x,                \* radix: the input vector
  x_sort,           \* radix: output sort(x)
  x_order,          \* radix: output order(x) permutation
  rcall             \* radix: the member function that ran ("none" before any)

engineVars == << rec, taylor_per_var_, taylor_, Partial, op_mark_index_, op_inv_index_,
                 value, ret, call, status, seeded, preClean, cleaned >>
radixVars == << x, x_sort, x_order, rcall >>
vars == << engineVars, radixVars >>

play_ == Recordings[rec].play
dep_taddr_ == Recordings[rec].dep
ind_taddr_ == IndTaddr(play_)
tp_ == TapePoints(play_)
total_num_var_ == TotalNumVar(play_)
n_ == Size(ind_taddr_)
m_ == Size(dep_taddr_)

\* ------------------------------------------------------------ ADFun::Reverse
\* the three CPPAD_ASSERT_KNOWN conditions of Reverse
ReversePreconditions(p, w) ==
  /\ (Size(w) = m_ \/ Size(w) = m_ * p)
  /\ p > 0
  /\ taylor_per_var_ >= p

\* "initialize entire Partial matrix to zero"
ZeroPartial(p) == Zeros(total_num_var_ * p)

\* one dependent variable of the seeding loop, overwriting in both weight forms
SeedDependent_Overwrite(i, p, w, P) ==
  IF Size(w) = m_
  THEN [P EXCEPT ![dep_taddr_[i] * p + p - 1] = w[i]]
  ELSE [idx \in DOMAIN P |->
          IF idx \in (dep_taddr_[i] * p)..(dep_taddr_[i] * p + p - 1)
          THEN w[i * p + (idx - dep_taddr_[i] * p)] ELSE P[idx]]

\* one dependent variable of the seeding loop: += w[i] at order p-1 (short
\* form), = w[i*p + k] at every order k (long form)
SeedDependent(i, p, w, P) ==
  IF Size(w) = m_
  THEN [P EXCEPT ![dep_taddr_[i] * p + p - 1] = @ + w[i]]
  ELSE [idx \in DOMAIN P |->
          IF idx \in (dep_taddr_[i] * p)..(dep_taddr_[i] * p + p - 1)
          THEN w[i * p + (idx - dep_taddr_[i] * p)] ELSE P[idx]]

RECURSIVE SeedFrom(_, _, _, _)
\* "set the dependent variable direction": for(i = 0; i < m; i++)
SeedFrom(i, p, w, P) ==
  IF i >= m_ THEN P ELSE SeedFrom(i + 1, p, w, SeedDependent(i, p, w, P))

\* the returned vector read from row j instead of row ind_taddr_[j]
ReverseValues_RowJ(p, w, P) ==
  [idx \in 0..(n_ * p - 1) |->
     LET j == idx \div p
         k == idx % p
     IN IF Size(w) = m_ THEN P[j * p + p - 1 - k] ELSE P[j * p + k]]

\* "return the derivative values": value[j*p + k], reindexed in the short form
ReverseValues(p, w, P) ==
  [idx \in 0..(n_ * p - 1) |->
     LET j == idx \div p
         k == idx % p
     IN IF Size(w) = m_
        THEN P[ind_taddr_[j] * p + p - 1 - k]
        ELSE P[ind_taddr_[j] * p + k]]

\* Reverse(p, w): the outcome, the local Partial after seeding, the returned vector
Reverse(p, w) ==
  IF ~ReversePreconditions(p, w)
  THEN [status |-> "error", seeded |-> << >>, value |-> << >>]
  ELSE LET P0 == SeedFrom(0, p, w, ZeroPartial(p))
           P1 == ReverseSweep(play_, taylor_, p, P0)
       IN [status |-> "ok", seeded |-> P0, value |-> ReverseValues(p, w, P1)]

\* ------------------------------------------------------------ ADFun::myReverse
\* the CPPAD_ASSERT_KNOWN conditions of myReverse, p == 1 first; m, whose
\* declaration is commented out in myReverse, is dep_taddr_.size() as in Reverse
myReversePreconditions(p, w) ==
  /\ p = 1
  /\ (Size(w) = m_ \/ Size(w) = m_ * p)
  /\ p > 0
  /\ taylor_per_var_ >= p

\* Partial[dep_var_taddr * p + p - 1] = 1.0
SeedOne(p, dep_var_index, P) == [P EXCEPT ![dep_taddr_[dep_var_index] * p + p - 1] = 1]

\* the extraction loop writing every independent variable, marked or not
ExtractMarked_All(p, inv, val, P) ==
  [idx \in DOMAIN val |-> P[ind_taddr_[idx \div p] * p + p - 1 - (idx % p)]]

\* the extraction loop with j = *it instead of j = *it - 1
ExtractMarked_OffByOne(p, inv, val, P) ==
  [idx \in DOMAIN val |->
     IF \E pos \in DOMAIN inv : inv[pos] = idx \div p
     THEN P[(idx \div p) * p + p - 1 - (idx % p)]
     ELSE val[idx]]

\* the extraction loop over op_inv_index_: j = *it - 1, value[j*p+k] = Partial[...]
ExtractMarked(p, inv, val, P) ==
  [idx \in DOMAIN val |->
     IF \E pos \in DOMAIN inv : inv[pos] - 1 = idx \div p
     THEN P[ind_taddr_[idx \div p] * p + p - 1 - (idx % p)]
     ELSE val[idx]]

\* the cleanup loop counting upward from var_index
CleanIndices_Upward(p, mark) ==
  UNION { {tp_[mark[pos]].var_index + i * p + j :
             i \in 0..(NumRes(tp_[mark[pos]].op) - 1), j \in 0..(p - 1)} :
          pos \in DOMAIN mark }

\* the cleanup loop running one iteration short: i < NumRes(tp.op) - 1
CleanIndices_OneShort(p, mark) ==
  UNION { {tp_[mark[pos]].var_index - i * p + j :
             i \in 0..(NumRes(tp_[mark[pos]].op) - 2), j \in 0..(p - 1)} :
          pos \in DOMAIN mark }

\* "Fill used Partials with zeros": the indices tp.var_index - i*p + j assigned,
\* for every tp of op_mark_index_, i < NumRes(tp.op), j < p
CleanIndices(p, mark) ==
  UNION { {tp_[mark[pos]].var_index - i * p + j :
             i \in 0..(NumRes(tp_[mark[pos]].op) - 1), j \in 0..(p - 1)} :
          pos \in DOMAIN mark }

FillUsedPartials(p, mark, P) ==
  [idx \in DOMAIN P |-> IF idx \in CleanIndices(p, mark) THEN 0 ELSE P[idx]]

\* what a myReverse call leaves when an assertion fails: nothing is touched
myReverseFailed(val, P) ==
  [status |-> "error", Partial |-> P, value |-> val, mark |-> op_mark_index_,
   inv |-> op_inv_index_, preClean |-> << >>, cleaned |-> {}]

\* the body of myReverse after its assertions
myReverseBody(p, dep_var_index, val, P) ==
  LET mark == OpMarkIndex(play_, dep_taddr_, dep_var_index)
      inv  == OpInvIndex(play_, dep_taddr_, dep_var_index)
      P0   == SeedOne(p, dep_var_index, P)
      P1   == myReverseSweep(play_, mark, taylor_, p, P0)
  IN [status |-> "ok", Partial |-> FillUsedPartials(p, mark, P1),
      value |-> ExtractMarked(p, inv, val, P1), mark |-> mark, inv |-> inv,
      preClean |-> P1, cleaned |-> CleanIndices(p, mark)]

\* myReverse with the seed assigned before the assertions are evaluated
myReverse_SeedFirst(p, w, dep_var_index, val, P) ==
  IF ~myReversePreconditions(p, w)
  THEN myReverseFailed(val, SeedOne(1, dep_var_index, P))
  ELSE myReverseBody(p, dep_var_index, val, P)

\* myReverse(p, w, dep_var_index, value) on the member buffer P
myReverse(p, w, dep_var_index, val, P) ==
  IF ~myReversePreconditions(p, w)
  THEN myReverseFailed(val, P)
  ELSE myReverseBody(p, dep_var_index, val, P)

\* ------------------------------------------------------------ radix::radix
\* Radix width in bits
radix_width == 8
\* Total width in bits: sizeof(T) * 8, for the instantiation T = uint16_t
total_width == 16
\* Number of unique keys used per radix pass: 1 << radix_width
num_keys == 2 ^ radix_width
\* Mask to extract keys
mask == num_keys - 1

RECURSIVE BitAnd(_, _, _)
\* a & b on the low `bits` bits
BitAnd(a, b, bits) ==
  IF bits = 0 THEN 0
  ELSE (a % 2) * (b % 2) + 2 * BitAnd(a \div 2, b \div 2, bits - 1)

RECURSIVE BitOr(_, _, _)
\* a | b on the low `bits` bits
BitOr(a, b, bits) ==
  IF bits = 0 THEN 0
  ELSE (IF a % 2 = 1 \/ b % 2 = 1 THEN 1 ELSE 0) + 2 * BitOr(a \div 2, b \div 2, bits - 1)

\* size_t key(T x, int k) { return (x >> k) & mask; }
key(v, k) == BitAnd(v \div (2 ^ k), mask, radix_width)

RECURSIVE bitwise_min(_, _)
\* bitwise_min &= x[i] for i < len, starting from ~0
bitwise_min(xs, len) ==
  IF len = 0 THEN 2 ^ total_width - 1
  ELSE BitAnd(bitwise_min(xs, len - 1), xs[len - 1], total_width)

RECURSIVE bitwise_max(_, _)
\* bitwise_max |= x[i] for i < len, starting from 0
bitwise_max(xs, len) ==
  IF len = 0 THEN 0
  ELSE BitOr(bitwise_max(xs, len - 1), xs[len - 1], total_width)

\* a pass skipped whenever the AND of all elements has a zero key byte
SkipPass_MinZero(xs, k) == key(bitwise_min(xs, Size(xs)), k) = 0

\* if (key(bitwise_min, k) == key(bitwise_max, k)) continue;
SkipPass(xs, k) == key(bitwise_min(xs, Size(xs)), k) = key(bitwise_max(xs, Size(xs)), k)

\* the keys that occur in pass k; count and pos are kept on these entries only,
\* every other entry of count is 0 and its pos entry is never read
Keys(xs, k) == {key(xs[i], k) : i \in DOMAIN xs}

\* count[key(x[i], k)]++ over the input vector
Count(xs, k) == [c \in Keys(xs, k) |-> Cardinality({i \in DOMAIN xs : key(xs[i], k) = c})]

\* pos[i] = pos[i - 1] + count[i - 1], pos[0] = 0: the sum of count below i
Pos(count) == [c \in DOMAIN count |-> SumOver(count, {b \in DOMAIN count : b < c})]

RECURSIVE Place(_, _, _, _, _)
\* the placement loop from element i on: st = [pos, y_sort, y_order]
Place(i, k, xs_sort, xs_order, st) ==
  IF i >= Size(xs_sort) THEN st
  ELSE LET x_sort_i == xs_sort[i]
           j == st.pos[key(x_sort_i, k)]
       IN Place(i + 1, k, xs_sort, xs_order,
                [pos     |-> [st.pos EXCEPT ![key(x_sort_i, k)] = @ + 1],
                 y_sort  |-> [st.y_sort EXCEPT ![j] = x_sort_i],
                 y_order |-> IF Size(xs_order) > 0
                             THEN [st.y_order EXCEPT ![j] = xs_order[i]]
                             ELSE st.y_order])

RECURSIVE Passes(_, _, _, _, _, _)
\* for (k = 0; k < total_width; k += radix_width): the outputs after the passes
\* from k on; ys_sort, ys_order are the scratch vectors y_sort, y_order
Passes(xs, k, xs_sort, xs_order, ys_sort, ys_order) ==
  IF k >= total_width THEN [x_sort |-> xs_sort, x_order |-> xs_order]
  ELSE IF SkipPass(xs, k) THEN Passes(xs, k + radix_width, xs_sort, xs_order, ys_sort, ys_order)
  ELSE LET st == Place(0, k, xs_sort, xs_order,
                       [pos |-> Pos(Count(xs, k)), y_sort |-> ys_sort, y_order |-> ys_order])
       IN \* std::swap(x_sort, y_sort); std::swap(x_order, y_order);
          Passes(xs, k + radix_width, st.y_sort, st.y_order, xs_sort, xs_order)

\* run_sort<get_order>(): x_sort = x, x_order = 0..size-1 (or empty), then the passes
run_sort(xs, get_order) ==
  Passes(xs, 0, xs, IF get_order THEN [i \in DOMAIN xs |-> i] ELSE << >>,
         Zeros(Size(xs)), IF get_order THEN Zeros(Size(xs)) ELSE << >>)

\* ------------------------------------------------------------ behaviours
\* order-0 and order-1 coefficients the independent variables x0, x1 are given
InputValues == << {0, 3}, {0, 4} >>
InputSlopes == << {1}, {2} >>
StoredOrders == {1, 2}
\* the orders p callers ask for
POrders == 0..2

Inputs(q) ==
  { u \in [0..1 -> [0..(q - 1) -> 0..4]] :
      \A j \in 0..1 : /\ u[j][0] \in InputValues[j + 1]
                      /\ q = 2 => u[j][1] \in InputSlopes[j + 1] }

NoCall == [kind |-> "none", p |-> 0, w |-> << >>, dep_var_index |-> 0, valueIn |-> << >>]

EngineInit ==
  /\ rec \in 1..Len(Recordings)
  /\ taylor_per_var_ \in StoredOrders
  /\ \E u \in Inputs(taylor_per_var_) :
       /\ taylor_ = Forward(Recordings[rec].play, u, taylor_per_var_)
       /\ SinArgsZero(Recordings[rec].play, taylor_)
  /\ Partial = Zeros(TotalNumVar(Recordings[rec].play))
  /\ op_mark_index_ = << >>
  /\ op_inv_index_ = << >>
  /\ value = Zeros(Size(IndTaddr(Recordings[rec].play)))
  /\ ret = << >>
  /\ call = NoCall
  /\ status = "ok"
  /\ seeded = << >>
  /\ preClean = << >>
  /\ cleaned = {}

\* the weight vectors a caller passes: both legal lengths and a wrong one
Weights(p) ==
  [0..(m_ - 1) -> 0..MaxW] \cup [0..(m_ * p - 1) -> 0..MaxW] \cup {Zeros(m_ + 1)}

\* a caller runs the full sweep
CallReverse ==
  \E p \in POrders : \E w \in Weights(p) :
    LET r == Reverse(p, w) IN
    /\ call' = [kind |-> "Reverse", p |-> p, w |-> w, dep_var_index |-> 0, valueIn |-> << >>]
    /\ status' = r.status
    /\ seeded' = r.seeded
    /\ ret' = r.value
    /\ preClean' = << >>
    /\ cleaned' = {}
    /\ UNCHANGED << rec, taylor_per_var_, taylor_, Partial, op_mark_index_, op_inv_index_, value >>
    /\ UNCHANGED radixVars

\* a caller runs the selective sweep on its result vector
CallMyReverse ==
  \E p \in POrders : \E w \in {Zeros(m_), Zeros(m_ + 1)} : \E i \in DOMAIN dep_taddr_ :
    LET r == myReverse(p, w, i, value, Partial) IN
    /\ call' = [kind |-> "myReverse", p |-> p, w |-> w, dep_var_index |-> i, valueIn |-> value]
    /\ status' = r.status
    /\ Partial' = r.Partial
    /\ value' = r.value
    /\ op_mark_index_' = r.mark
    /\ op_inv_index_' = r.inv
    /\ preClean' = r.preClean
    /\ cleaned' = r.cleaned
    /\ seeded' = << >>
    /\ ret' = << >>
    /\ UNCHANGED << rec, taylor_per_var_, taylor_ >>
    /\ UNCHANGED radixVars

\* the caller zeroes its result vector between calls
CallerClearsValue ==
  /\ value # Zeros(n_)
  /\ value' = Zeros(n_)
  /\ call' = [NoCall EXCEPT !.kind = "clear"]
  /\ status' = "ok"
  /\ seeded' = << >>
  /\ ret' = << >>
  /\ preClean' = << >>
  /\ cleaned' = {}
  /\ UNCHANGED << rec, taylor_per_var_, taylor_, Partial, op_mark_index_, op_inv_index_ >>
  /\ UNCHANGED radixVars

RadixIdle ==
  /\ x = << >>
  /\ x_sort = << >>
  /\ x_order = << >>
  /\ rcall = "none"

Init == EngineInit /\ RadixIdle

Next == CallReverse \/ CallMyReverse \/ CallerClearsValue

Spec == Init /\ [][Next]_vars

\* ------------------------------------------------------------ radix behaviours
\* the unsigned values the sorted vectors are built from
RadixValues == {0, 1, 2, 256, 257, 513, 65535}

RadixInputs == UNION {[0..(len - 1) -> RadixValues] : len \in 0..MaxLen}

EngineIdle ==
  /\ rec = 1
  /\ taylor_per_var_ = 1
  /\ taylor_ = Forward(Recordings[1].play, [j \in 0..1 |-> Zeros(1)], 1)
  /\ Partial = Zeros(TotalNumVar(Recordings[1].play))
  /\ op_mark_index_ = << >>
  /\ op_inv_index_ = << >>
  /\ value = Zeros(Size(IndTaddr(Recordings[1].play)))
  /\ ret = << >>
  /\ call = NoCall
  /\ status = "ok"
  /\ seeded = << >>
  /\ preClean = << >>
  /\ cleaned = {}

RadixInit ==
  /\ EngineIdle
  /\ x \in RadixInputs
  /\ x_sort = << >>
  /\ x_order = << >>
  /\ rcall = "none"

\* radix<T, I>(x).order()
CallOrder ==
  /\ rcall = "none"
  /\ LET r == run_sort(x, TRUE) IN x_sort' = r.x_sort /\ x_order' = r.x_order
  /\ rcall' = "order"
  /\ UNCHANGED << x, engineVars >>

\* radix<T, I>(x).sort()
CallSort ==
  /\ rcall = "none"
  /\ LET r == run_sort(x, FALSE) IN x_sort' = r.x_sort /\ x_order' = r.x_order
  /\ rcall' = "sort"
  /\ UNCHANGED << x, engineVars >>

RadixNext == CallOrder \/ CallSort

RadixSpec == RadixInit /\ [][RadixNext]_vars

\* ------------------------------------------------------------ properties
MyReverseReturned == call.kind = "myReverse" /\ status = "ok"
ReverseReturned == call.kind = "Reverse" /\ status = "ok"

\* independent variable j is listed in the inverse-index mapping
InInvIndex(j) == \E pos \in DOMAIN op_inv_index_ : op_inv_index_[pos] - 1 = j

\* the weight vector that is 1 at dependent variable i and 0 elsewhere
OneHot(i) == [e \in 0..(m_ - 1) |-> IF e = i THEN 1 ELSE 0]

\* the long weight form that carries w[i] at order p-1 of output i, 0 elsewhere
OneHotLong(p, w) == [e \in 0..(m_ * p - 1) |-> IF e % p = p - 1 THEN w[e \div p] ELSE 0]

\* the dependent-variable indices whose address is a
Aliases(a) == {i \in DOMAIN dep_taddr_ : dep_taddr_[i] = a}

C2_AllEntriesEqual ==
  MyReverseReturned => value = Reverse(1, OneHot(call.dep_var_index)).value

\* C2 amended: value agrees with the full sweep at every position of the
\* inverse-index mapping; at every other position the full sweep returns 0
\* and value keeps what it held on entry.
C2_EqualOnInvIndex ==
  MyReverseReturned =>
    LET full == Reverse(1, OneHot(call.dep_var_index)).value IN
    \A j \in 0..(n_ - 1) :
      IF InInvIndex(j) THEN value[j] = full[j]
      ELSE full[j] = 0 /\ value[j] = call.valueIn[j]

\* a selective sweep whose output does not depend on every input and whose
\* relevant gradient entry is nonzero
C2_Witness ==
  /\ MyReverseReturned
  /\ \E j \in 0..(n_ - 1) : ~InInvIndex(j)
  /\ \E j \in 0..(n_ - 1) : InInvIndex(j) /\ value[j] # 0

\* C3: short weight form: after seeding, the entry at order p-1 of every
\* address a is the sum of w[i] over the outputs i at address a, and every
\* other entry is zero.
C3_ShortSeedSums ==
  (ReverseReturned /\ Size(call.w) = m_) =>
    \A a \in 0..(total_num_var_ - 1) : \A k \in 0..(call.p - 1) :
      seeded[a * call.p + k] =
        IF k = call.p - 1 THEN SumOver(call.w, Aliases(a)) ELSE 0

\* two outputs at one address, both with nonzero weight, at order 2
C3_Witness ==
  /\ ReverseReturned
  /\ call.p = 2
  /\ Size(call.w) = m_
  /\ \E i1, i2 \in DOMAIN dep_taddr_ :
       /\ i1 # i2
       /\ dep_taddr_[i1] = dep_taddr_[i2]
       /\ call.w[i1] > 0
       /\ call.w[i2] > 0
       /\ seeded[dep_taddr_[i1] * 2 + 1] = call.w[i1] + call.w[i2]

\* C4: long weight form: after seeding, the entry at (address a, order k) is
\* the sum of w[i*p + k] over the outputs i at address a.
C4_LongSeedSums ==
  (ReverseReturned /\ Size(call.w) # m_) =>
    \A a \in 0..(total_num_var_ - 1) : \A k \in 0..(call.p - 1) :
      seeded[a * call.p + k] =
        SumOver([i \in DOMAIN dep_taddr_ |-> call.w[i * call.p + k]], Aliases(a))

\* C5: for p > 1 the short weight form returns the same vector as the
\* equivalent one-hot long weight form.
C5_RoundTrip ==
  (ReverseReturned /\ call.p > 1 /\ Size(call.w) = m_) =>
    ret = Reverse(call.p, OneHotLong(call.p, call.w)).value

\* the call just made violates a precondition C6 lists
ViolatesPrecondition(c) ==
  \/ c.kind = "myReverse" /\ c.p # 1
  \/ /\ c.kind = "Reverse"
     /\ \/ ~(Size(c.w) = m_ \/ Size(c.w) = m_ * c.p)
        \/ c.p = 0
        \/ taylor_per_var_ < c.p

\* C6: a call that violates a precondition ends in the error handler with the
\* member buffer, the caller's result vector and the relevance indices as they
\* were, nothing seeded, swept, cleaned or returned.
C6_PreconditionRejection ==
  [][ ViolatesPrecondition(call') =>
        /\ status' = "error"
        /\ Partial' = Partial
        /\ value' = value
        /\ op_mark_index_' = op_mark_index_
        /\ op_inv_index_' = op_inv_index_
        /\ seeded' = << >>
        /\ preClean' = << >>
        /\ cleaned' = {}
        /\ ret' = << >> ]_vars

\* a rejected selective sweep with p = 2 that left an earlier result in place
C6_Witness ==
  /\ call.kind = "myReverse"
  /\ call.p = 2
  /\ status = "error"
  /\ value # Zeros(n_)
  /\ value = call.valueIn
  /\ Size(op_mark_index_) > 0

\* the independent coefficients with a unit first-order direction at variable j
Direction(j) ==
  [v \in 0..(n_ - 1) |->
     [k \in 0..1 |-> IF k = 0 THEN taylor_[ind_taddr_[v]][0] ELSE IF v = j THEN 1 ELSE 0]]

\* dy_i/dx_j by forward mode: the first-order coefficient of output i along x_j
Tangent(i, j) == Forward(play_, Direction(j), 2)[dep_taddr_[i]][1]

\* C7: Reverse(1, w) with the short weight form returns sum_i w[i] * dy_i/dx_j
\* for every independent variable j; for y = x0*x1 + x0 at x0 = 3, x1 = 4
\* (y = 15) and w = [1] it returns [5, 3], and so does the selective sweep.
C7_Gradient ==
  /\ (ReverseReturned /\ call.p = 1) =>
       \A j \in 0..(n_ - 1) :
         ret[j] = SumOver([i \in DOMAIN dep_taddr_ |-> call.w[i] * Tangent(i, j)],
                          DOMAIN dep_taddr_)
  /\ (rec = 1 /\ taylor_[1][0] = 3 /\ taylor_[2][0] = 4) =>
       /\ taylor_[4][0] = 15
       /\ (ReverseReturned /\ call.p = 1 /\ call.w = ZeroBased(<< 1 >>)) =>
            ret = ZeroBased(<< 5, 3 >>)
       /\ MyReverseReturned => value = ZeroBased(<< 5, 3 >>)

\* the full sweep of the end-to-end scenario has returned [5, 3]
C7_Witness ==
  /\ rec = 1
  /\ taylor_[1][0] = 3
  /\ taylor_[2][0] = 4
  /\ ReverseReturned
  /\ call.p = 1
  /\ call.w = ZeroBased(<< 1 >>)
  /\ ret = ZeroBased(<< 5, 3 >>)

\* address of the first result of operator i_op: the result slots before it
FirstResult(i_op) == SumRes(play_, i_op - 1)

\* the buffer rows the results of operator i_op occupy
ResultRows(i_op) == FirstResult(i_op)..(FirstResult(i_op) + NumRes(play_[i_op].op) - 1)

\* the result rows of the operators marked relevant
RelevantRows == UNION {ResultRows(op_mark_index_[pos]) : pos \in DOMAIN op_mark_index_}

\* the r rows counted upward from the address recorded in tp_ for operator i_op
RowsFromRecorded(i_op) == tp_[i_op].var_index..(tp_[i_op].var_index + NumRes(tp_[i_op].op) - 1)

C9_ExtractionFrame ==
  MyReverseReturned =>
    \A j \in 0..(n_ - 1) :
      value[j] = IF InInvIndex(j) THEN preClean[ind_taddr_[j]] ELSE call.valueIn[j]

\* a reused result vector carrying a stale nonzero entry past a later call
C9_Witness ==
  /\ MyReverseReturned
  /\ \E j \in 0..(n_ - 1) : ~InInvIndex(j) /\ value[j] # 0 /\ value[j] = call.valueIn[j]
  /\ \E j \in 0..(n_ - 1) : InInvIndex(j) /\ value[j] # call.valueIn[j]

\* C10: order() returns a permutation x_order of 0..|x|-1 along which x is
\* nondecreasing, equal keys keep their original index order, and
\* x_sort[i] = x[x_order[i]].
C10_RadixOrder ==
  rcall = "order" =>
    /\ DOMAIN x_order = DOMAIN x
    /\ DOMAIN x_sort = DOMAIN x
    /\ {x_order[i] : i \in DOMAIN x_order} = DOMAIN x
    /\ \A i \in DOMAIN x : x_sort[i] = x[x_order[i]]
    /\ \A i, j \in DOMAIN x :
         i < j => \/ x[x_order[i]] < x[x_order[j]]
                  \/ x[x_order[i]] = x[x_order[j]] /\ x_order[i] < x_order[j]

\* an unsorted input with a repeated key, one pass run and one pass skipped
C10_Witness ==
  /\ rcall = "order"
  /\ Size(x) >= 3
  /\ \E k \in {0, radix_width} : SkipPass(x, k)
  /\ \E k \in {0, radix_width} : ~SkipPass(x, k)
  /\ \E i, j \in DOMAIN x : i < j /\ x[i] = x[j]
  /\ \E i, j \in DOMAIN x : i < j /\ x[i] > x[j]

====
